---- MODULE Spec2Model ----
(***************************************************************************)
(* A model of subsession.Session (src/subsession/__init__.py): the         *)
(* save / patch / restore protocol over sys.modules, os.environ, sys.path  *)
(* and builtins.__import__, the import hook that records what a session    *)
(* loads, and reload.                                                      *)
(*                                                                         *)
(* Module objects are identities 1..MaxObj handed out in creation order;   *)
(* a registry (sys.modules, a snapshot, isolated_modules) maps each module *)
(* name to an identity, or to NoModule when the name is not a key.         *)
(* os.environ and sys.path are references to mutable tables / lists: the   *)
(* process's own ("environ", "path") or a session's isolated_env /         *)
(* isolated_paths, which are named by the session that owns them.          *)
(***************************************************************************)
EXTENDS Naturals, Sequences, FiniteSets

\* ------------------------------------------------------------- bounds
\* module objects that can ever be created (sys is object 1)
MaxObj == 3
\* calls of __enter__ the program makes (with-blocks and wrapper calls)
MaxEntries == 2

\* ------------------------------------------------------------- universe
Sessions == {"s1", "s2"}

\* "sys" stands for the bootstrap modules, "dummy_pkg" is a package found
\* through the ambient path entry "fixtures" with a submodule
\* "dummy_pkg.sub", "non_findable_pkg" is found only through the entry
\* "non_pkg_folder" that a session adds through `paths`.
ModuleNames == {"sys", "dummy_pkg", "dummy_pkg.sub", "non_findable_pkg"}

\* the names no session deletes from sys.modules (one representative)
_protected_names == {"sys"}

\* a name that is not a key of a registry
NoModule == 0

Objects == 1..MaxObj

Registries == [ModuleNames -> Objects \cup {NoModule}]

EmptyRegistry == [n \in ModuleNames |-> NoModule]

PathEntries == {"fixtures", "non_pkg_folder"}

\* where a top-level module lives on disk
Location == [dummy_pkg |-> "fixtures", non_findable_pkg |-> "non_pkg_folder"]

EnvKeys == {"TEST_ENV"}

EnvValues == {"test", "outer"}

\* a key that is not in an environment table
NoValue == "<absent>"

EnvTables == [EnvKeys -> EnvValues \cup {NoValue}]

EmptyEnv == [k \in EnvKeys |-> NoValue]

\* the builtin importer, and the value of an attribute __enter__ has not set
Builtin == "builtin"

Unset == "<unset>"

\* ------------------------------------------------------------- state
VARIABLES
    sys_modules,          \* sys.modules: the live registry (one dict, mutated in place)
    nameOf,               \* module.__name__ of each created module object
    nextObj,              \* the identity the next created module gets
    os_environ,           \* os.environ: which table is live
    envTab,               \* contents of every environment table
    sys_path,             \* sys.path: which list is live
    pathList,             \* contents of every path list
    import_hook,          \* builtins.__import__: Builtin or the session whose hook is installed
    keep_global,          \* Session.keep_global
    inherit_env,          \* Session.inherit_env
    inherit_paths,        \* Session.inherit_paths
    ctor_env,             \* the env argument of the constructor
    ctor_paths,           \* the paths argument of the constructor
    original_path,        \* Session.original_path
    original_env,         \* Session.original_env
    original_sys_modules, \* Session.original_sys_modules
    original_import,      \* Session.original_import
    isolated_modules,     \* Session.isolated_modules
    blocks,               \* the open with-blocks, innermost first, each with what was live at its entry
    obtained,             \* for each module object outside the protected set, the scopes whose imports returned it
    entries,              \* calls of __enter__ so far
    last_exc              \* the exception the last operation raised to its caller, or "none"

vars == <<sys_modules, nameOf, nextObj, os_environ, envTab, sys_path, pathList,
          import_hook, keep_global, inherit_env, inherit_paths, ctor_env,
          ctor_paths, original_path, original_env, original_sys_modules,
          original_import, isolated_modules, blocks, obtained, entries, last_exc>>

config == <<keep_global, inherit_env, inherit_paths, ctor_env, ctor_paths>>

\* ------------------------------------------------------------- helpers
\* dict.update
Update(mods, other) ==
    [n \in ModuleNames |-> IF other[n] # NoModule THEN other[n] ELSE mods[n]]

\* dict.update on an environment table
EnvUpdate(tab, other) ==
    [k \in EnvKeys |-> IF other[k] # NoValue THEN other[k] ELSE tab[k]]

Range(seq) == {seq[i] : i \in DOMAIN seq}

\* the scope code runs in: the innermost open with-block's session, or outside
Scope == IF blocks = <<>> THEN "outside" ELSE Head(blocks).s

\* a session is active between an __enter__ and the matching __exit__
Active(s) == \E i \in DOMAIN blocks : blocks[i].s = s

\* _patch_sys_modules without the test against _protected_names
PatchWithoutProtection(self, mods, snapshot) ==
    [n \in ModuleNames |->
        IF /\ snapshot[n] # NoModule
           /\ n \notin keep_global[self]
           /\ mods[n] # NoModule
        THEN NoModule
        ELSE mods[n]]

\* Session._patch_sys_modules: delete every key of the snapshot that is
\* neither protected nor kept global and is in the live registry
_patch_sys_modules(self, mods, snapshot) ==
    [n \in ModuleNames |->
        IF /\ snapshot[n] # NoModule
           /\ n \notin _protected_names
           /\ n \notin keep_global[self]
           /\ mods[n] # NoModule
        THEN NoModule
        ELSE mods[n]]

\* Session._restore_sys_modules
_restore_sys_modules(self, mods) ==
    Update(_patch_sys_modules(self, mods, original_sys_modules[self]),
           original_sys_modules[self])

\* ------------------------------------------------------------- import
\* sys.getrecursionlimit(), scaled down: a hook chain that does not loop
\* passes through each session at most once
RecursionLimit == Cardinality(Sessions)

\* the modules `import name` loads, outermost package first
ImportChain(name) ==
    IF name = "dummy_pkg.sub" THEN <<"dummy_pkg", "dummy_pkg.sub">> ELSE <<name>>

\* whether the finders locate module n: a bootstrap module is built in, a
\* submodule is found through its loaded package, anything else through sys.path
Findable(n, mods, path) ==
    CASE n \in _protected_names -> TRUE
      [] n = "dummy_pkg.sub" -> mods["dummy_pkg"] # NoModule
      [] OTHER -> Location[n] \in Range(path)

\* one step of the import machinery: use sys.modules[n], or create the module
LoadModule(n, st, path) ==
    IF st.exc # "none" \/ st.mods[n] # NoModule THEN st
    ELSE IF ~Findable(n, st.mods, path) THEN [st EXCEPT !.exc = "ImportError"]
    ELSE IF st.next > MaxObj THEN [st EXCEPT !.exc = "exhausted"]
    ELSE [st EXCEPT !.mods[n] = st.next, !.names[st.next] = n, !.next = st.next + 1]

\* the builtin __import__(name) with an empty fromlist: loads the package
\* chain and returns the top-level package
builtin_import(name, st, path) ==
    LET chain == ImportChain(name)
        a == LoadModule(chain[1], st, path)
        b == IF Len(chain) > 1 THEN LoadModule(chain[2], a, path) ELSE a
    IN  IF b.exc = "none" THEN [b EXCEPT !.module = b.mods[chain[1]]] ELSE b

\* the hook delegating to the builtin importer instead of the importer that
\* was installed when the session was entered
IsolatedImportToBuiltin(self, name, st, path, depth) ==
    LET r == builtin_import(name, st, path)
    IN  IF /\ r.exc = "none"
           /\ name \notin _protected_names
           /\ name \notin keep_global[self]
        THEN [r EXCEPT !.iso[self][r.names[r.module]] = r.module]
        ELSE r

RECURSIVE CallImport(_, _, _, _, _)
RECURSIVE _isolated_import(_, _, _, _, _)

\* a call of the function bound to builtins.__import__ or to original_import
CallImport(hook, name, st, path, depth) ==
    IF hook = Builtin THEN builtin_import(name, st, path)
    ELSE IF depth = 0 THEN [st EXCEPT !.exc = "RecursionError"]
    ELSE _isolated_import(hook, name, st, path, depth)

\* Session._isolated_import
_isolated_import(self, name, st, path, depth) ==
    LET r == CallImport(original_import[self], name, st, path, depth - 1)
    IN  IF /\ r.exc = "none"
           /\ name \notin _protected_names
           /\ name \notin keep_global[self]
        THEN [r EXCEPT !.iso[self][r.names[r.module]] = r.module]
        ELSE r

\* an import statement executed by the running code
Import(name) ==
    LET st == [mods |-> sys_modules, names |-> nameOf, next |-> nextObj,
               iso |-> isolated_modules, module |-> NoModule, exc |-> "none"]
        r == CallImport(import_hook, name, st, pathList[sys_path], RecursionLimit)
    IN  /\ r.exc # "exhausted"
        /\ sys_modules' = r.mods
        /\ nameOf' = r.names
        /\ nextObj' = r.next
        /\ isolated_modules' = r.iso
        /\ obtained' = IF r.exc = "none" /\ r.names[r.module] \notin _protected_names
                       THEN [obtained EXCEPT ![r.module] = @ \cup {Scope}]
                       ELSE obtained
        /\ blocks' = IF /\ r.exc = "none"
                        /\ name \notin _protected_names
                        /\ blocks # <<>>
                        /\ Head(blocks).first[name] = NoModule
                     THEN <<[Head(blocks) EXCEPT !.first[name] = r.module]>> \o Tail(blocks)
                     ELSE blocks
        /\ last_exc' = r.exc
        /\ UNCHANGED <<os_environ, envTab, sys_path, pathList, import_hook, config,
                       original_path, original_env, original_sys_modules,
                       original_import, entries>>

\* os.environ[k] = v, or del os.environ[k], executed by the running code
SetEnv(k, v) ==
    /\ envTab[os_environ][k] # v
    /\ envTab' = [envTab EXCEPT ![os_environ][k] = v]
    /\ last_exc' = "none"
    /\ UNCHANGED <<sys_modules, nameOf, nextObj, os_environ, sys_path, pathList,
                   import_hook, config, original_path, original_env,
                   original_sys_modules, original_import, isolated_modules,
                   blocks, obtained, entries>>

\* ------------------------------------------------------------- enter / exit
\* Session.__enter__
__enter__(self) ==
    /\ entries < MaxEntries
    /\ entries' = entries + 1
    /\ isolated_modules' = [isolated_modules EXCEPT ![self] = EmptyRegistry]
    /\ original_path' = [original_path EXCEPT ![self] = sys_path]
    /\ original_env' = [original_env EXCEPT ![self] = os_environ]
    /\ original_sys_modules' = [original_sys_modules EXCEPT ![self] = sys_modules]
    /\ original_import' = [original_import EXCEPT ![self] = import_hook]
    /\ sys_modules' = _patch_sys_modules(self, sys_modules, sys_modules)
    /\ os_environ' = self
    /\ sys_path' = self
    /\ import_hook' = self
    /\ envTab' = IF inherit_env[self]
                 THEN [envTab EXCEPT ![self] = EnvUpdate(@, envTab[os_environ])]
                 ELSE envTab
    /\ pathList' = IF inherit_paths[self]
                   THEN [pathList EXCEPT ![self] = @ \o pathList[sys_path]]
                   ELSE pathList
    /\ blocks' = <<[s |-> self, modules |-> sys_modules,
                    environ |-> os_environ, env |-> envTab[os_environ],
                    path |-> sys_path, paths |-> pathList[sys_path],
                    hook |-> import_hook, first |-> EmptyRegistry]>> \o blocks
    /\ last_exc' = "none"
    /\ UNCHANGED <<nameOf, nextObj, config, obtained>>

\* the value __exit__ returns: None, so the exception is not suppressed
ExitReturns == FALSE

\* Session.__exit__ at the end of the innermost with-block (or of the wrapper
\* of __call__), which the guarded code left by returning (raised = "none")
\* or by raising
__exit__(raised) ==
    /\ blocks # <<>>
    /\ LET self == Head(blocks).s
       IN  /\ sys_modules' = _restore_sys_modules(self, sys_modules)
           /\ os_environ' = original_env[self]
           /\ sys_path' = original_path[self]
           /\ import_hook' = original_import[self]
           /\ last_exc' = IF ExitReturns THEN "none" ELSE raised
    /\ blocks' = Tail(blocks)
    /\ UNCHANGED <<nameOf, nextObj, envTab, pathList, config, original_path,
                   original_env, original_sys_modules, original_import,
                   isolated_modules, obtained, entries>>

\* ------------------------------------------------------------- reload
\* importlib.reload's own checks: the module must be the one registered under
\* its name, its parent package must be registered, and the finders must
\* locate it again
Reloadable(module, mods) ==
    /\ mods[nameOf[module]] = module
    /\ nameOf[module] = "dummy_pkg.sub" => mods["dummy_pkg"] # NoModule
    /\ Findable(nameOf[module], mods, pathList[sys_path])

\* reload's registry without the entries of isolated_modules
ReloadViewWithoutIsolated(self, mods) ==
    _patch_sys_modules(self, mods, original_sys_modules[self])

\* the registry importlib.reload runs in: reload's first two statements
ReloadView(self, mods) ==
    Update(_patch_sys_modules(self, mods, original_sys_modules[self]),
           isolated_modules[self])

\* reload with the restoration after the try block instead of in a finally
\* clause: an exception skips it
ReloadWithoutFinally(self, module, raises) ==
    /\ module < nextObj
    /\ raises => /\ original_import[self] # Unset
                 /\ Reloadable(module, ReloadView(self, sys_modules))
    /\ IF original_import[self] = Unset
       THEN /\ last_exc' = "AttributeError"
            /\ UNCHANGED sys_modules
       ELSE LET view == ReloadView(self, sys_modules)
                exc == IF ~Reloadable(module, view) THEN "ImportError"
                       ELSE IF raises THEN "Error" ELSE "none"
            IN  /\ sys_modules' = IF exc = "none" THEN _restore_sys_modules(self, view)
                                  ELSE view
                /\ last_exc' = exc
    /\ UNCHANGED <<nameOf, nextObj, os_environ, envTab, sys_path, pathList,
                   import_hook, config, original_path, original_env,
                   original_sys_modules, original_import, isolated_modules,
                   blocks, obtained, entries>>

\* Session.reload(module); `raises` is whether the module's code raises
reload(self, module, raises) ==
    /\ module < nextObj
    /\ raises => /\ original_import[self] # Unset
                 /\ Reloadable(module, ReloadView(self, sys_modules))
    /\ IF original_import[self] = Unset
       THEN \* the snapshot attributes do not exist before the first __enter__
            /\ last_exc' = "AttributeError"
            /\ UNCHANGED sys_modules
       ELSE LET view == ReloadView(self, sys_modules)
            IN  /\ sys_modules' = _restore_sys_modules(self, view)
                /\ last_exc' = IF ~Reloadable(module, view) THEN "ImportError"
                                ELSE IF raises THEN "Error" ELSE "none"
    /\ UNCHANGED <<nameOf, nextObj, os_environ, envTab, sys_path, pathList,
                   import_hook, config, original_path, original_env,
                   original_sys_modules, original_import, isolated_modules,
                   blocks, obtained, entries>>

\* ------------------------------------------------------------- specifications
\* The state after the Session objects are constructed. The sets the
\* constructor arguments are drawn from are parameters: the three
\* specifications below each vary the arguments of one subsystem.
Constructed(keeps, inherits_env, envs, inherits_paths, paths) ==
    /\ sys_modules = [EmptyRegistry EXCEPT !["sys"] = 1]
    /\ nameOf = [o \in Objects |-> IF o = 1 THEN "sys" ELSE "<none>"]
    /\ nextObj = 2
    /\ os_environ = "environ"
    /\ sys_path = "path"
    /\ import_hook = Builtin
    /\ keep_global \in [Sessions -> keeps]
    /\ inherit_env \in [Sessions -> inherits_env]
    /\ ctor_env \in [Sessions -> envs]
    /\ inherit_paths \in [Sessions -> inherits_paths]
    /\ ctor_paths \in [Sessions -> paths]
    /\ envTab = [t \in {"environ"} \cup Sessions |->
                    IF t = "environ" THEN EmptyEnv ELSE ctor_env[t]]
    /\ pathList = [l \in {"path"} \cup Sessions |->
                    IF l = "path" THEN <<"fixtures">> ELSE ctor_paths[l]]
    /\ original_path = [s \in Sessions |-> Unset]
    /\ original_env = [s \in Sessions |-> Unset]
    /\ original_sys_modules = [s \in Sessions |-> EmptyRegistry]
    /\ original_import = [s \in Sessions |-> Unset]
    /\ isolated_modules = [s \in Sessions |-> EmptyRegistry]
    /\ blocks = <<>>
    /\ obtained = [o \in Objects |-> {}]
    /\ entries = 0
    /\ last_exc = "none"

TestEnv == [EmptyEnv EXCEPT !["TEST_ENV"] = "test"]

\* The module registry: sessions with any keep_global (up to renaming the
\* two sessions) and the default environment and path arguments; the code
\* enters, leaves, imports what the ambient path holds, and reloads.
Init ==
    /\ Constructed(SUBSET {"dummy_pkg"}, {TRUE}, {EmptyEnv}, {TRUE}, {<<>>})
    /\ keep_global["s2"] \subseteq keep_global["s1"]

Next ==
    \/ \E s \in Sessions : __enter__(s)
    \/ \E raised \in {"none", "Error"} : __exit__(raised)
    \/ \E name \in ModuleNames \ {"non_findable_pkg"} : Import(name)
    \/ \E s \in Sessions, o \in Objects, raises \in BOOLEAN : reload(s, o, raises)

Spec == Init /\ [][Next]_vars

\* The environment table: sessions with any env and inherit_env; the code
\* enters, leaves and writes os.environ. Import and reload leave the
\* environment tables alone, and nothing here depends on the registry.
InitEnv ==
    Constructed({{}}, BOOLEAN, {EmptyEnv, TestEnv}, {TRUE}, {<<>>})

NextEnv ==
    \/ \E s \in Sessions : __enter__(s)
    \/ \E raised \in {"none", "Error"} : __exit__(raised)
    \/ \E k \in EnvKeys, v \in EnvValues \cup {NoValue} : SetEnv(k, v)

SpecEnv == InitEnv /\ [][NextEnv]_vars

\* The search path: sessions with any paths and inherit_paths; the code
\* enters, leaves and imports the modules that are found through sys.path.
InitPaths ==
    Constructed({{}}, {TRUE}, {EmptyEnv}, BOOLEAN, {<<>>, <<"non_pkg_folder">>})

NextPaths ==
    \/ \E s \in Sessions : __enter__(s)
    \/ \E raised \in {"none", "Error"} : __exit__(raised)
    \/ \E name \in DOMAIN Location : Import(name)

SpecPaths == InitPaths /\ [][NextPaths]_vars

\* The reload protocol: the sessions of Init; the code enters, leaves,
\* imports the package and reloads. reload reads the registry, the session's
\* snapshot and its table, not how a block was left or what else was imported.
NextReload ==
    \/ \E s \in Sessions : __enter__(s)
    \/ __exit__("none")
    \/ Import("dummy_pkg")
    \/ \E s \in Sessions, o \in Objects, raises \in BOOLEAN : reload(s, o, raises)

SpecReload == Init /\ [][NextReload]_vars

\* ------------------------------------------------------------- claims
\* a step that leaves the innermost with-block, a step that enters one
ExitStep == Len(blocks') < Len(blocks)

EnterStep == Len(blocks') > Len(blocks)

\* what `import name` would return or raise in the current state
WouldImport(name) ==
    CallImport(import_hook, name,
               [mods |-> sys_modules, names |-> nameOf, next |-> nextObj,
                iso |-> isolated_modules, module |-> NoModule, exc |-> "none"],
               pathList[sys_path], RecursionLimit)

\* C1: a module that is neither protected nor kept global by a session, and
\* that an import inside that session returned, is returned by no import
\* outside every session and by no import inside another session that does
\* not keep it global.
C1_IsolatedIdentity ==
    \A o \in Objects : \A s \in obtained[o] \cap Sessions :
        nameOf[o] \notin keep_global[s] =>
            \A c \in obtained[o] \ {s} :
                c \in Sessions /\ nameOf[o] \in keep_global[c]

\* C2: when a session exits, the live registry is the mapping it was when
\* that with-block was entered.
C2_RegistryRestored ==
    [][ExitStep => sys_modules' = Head(blocks).modules]_vars

\* C3: no step removes a protected name from the live registry.
C3_ProtectedNeverRemoved ==
    [][\A n \in _protected_names :
          sys_modules[n] # NoModule => sys_modules'[n] # NoModule]_vars

\* a session is active, its entry removed dummy_pkg, and sys is still there
C3_Witness ==
    /\ blocks # <<>>
    /\ Head(blocks).modules["dummy_pkg"] # NoModule
    /\ sys_modules["dummy_pkg"] = NoModule
    /\ sys_modules["sys"] # NoModule

\* an import that returns, in the current state, returns module o (an import
\* that raises RecursionError or ImportError returns nothing)
ImportYields(name, o) ==
    LET r == WouldImport(name)
    IN  \/ r.exc \in {"RecursionError", "ImportError"}
        \/ r.exc = "none" /\ r.module = o

\* inside a session, an import of a kept name returns the module the name had
\* in the registry at entry, and the module an earlier import in the block got
C4_Inside ==
    blocks # <<>> =>
        \A m \in keep_global[Head(blocks).s] :
            /\ Head(blocks).modules[m] # NoModule =>
                   ImportYields(m, Head(blocks).modules[m])
            /\ Head(blocks).first[m] # NoModule =>
                   ImportYields(m, Head(blocks).first[m])

\* when the session exits, an import of a kept name returns the module the
\* imports inside the block got
C4_AfterExit ==
    ExitStep =>
        \A m \in keep_global[Head(blocks).s] : \A o \in Objects :
            Head(blocks).first[m] = o => ImportYields(m, o)'

\* C4: for a name in a session's keep_global, an import inside the session
\* returns the same module object as an import outside it, both when the
\* name was loaded before entry and when it is first loaded inside and
\* imported outside after exit.
C4_KeepGlobalShared ==
    [][C4_Inside' /\ C4_AfterExit]_vars

\* a kept name was imported inside s1 and outside every session, and both
\* imports returned the same module
C4_Witness ==
    \E o \in Objects :
        /\ nameOf[o] \in keep_global["s1"]
        /\ {"s1", "outside"} \subseteq obtained[o]
        /\ blocks = <<>>
        /\ sys_modules[nameOf[o]] = o

\* C5: inside one with-block, an import of a name returns the module the
\* first import of that name in the block returned, whatever reload,
\* inner enter and inner exit ran in between.
C5_InternalCaching ==
    blocks # <<>> =>
        \A n \in ModuleNames :
            Head(blocks).first[n] # NoModule =>
                ImportYields(n, Head(blocks).first[n])

\* right after the entry of the innermost block
C6_AtEntry ==
    inherit_env[Head(blocks).s] =>
        \A k \in EnvKeys :
            (ctor_env[Head(blocks).s][k] # NoValue /\ Head(blocks).env[k] # NoValue) =>
                envTab[os_environ][k] = ctor_env[Head(blocks).s][k]

\* C6: right after an entry with inherit_env, a key given in the constructor's
\* env and present in the outer table has the constructor's value in the
\* live table.
C6_ConstructorEnvWins ==
    [][EnterStep => C6_AtEntry']_vars

\* C7: when a session exits, os.environ is the table that was live at entry,
\* with the contents it had at entry.
C7_EnvironRestored ==
    [][ExitStep =>
          /\ os_environ' = Head(blocks).environ
          /\ envTab'[os_environ'] = Head(blocks).env]_vars

\* right after the entry of the innermost block
C8_AtEntry ==
    \A k \in EnvKeys :
        (ctor_env[Head(blocks).s][k] = NoValue /\ Head(blocks).env[k] = NoValue) =>
            envTab[os_environ][k] = NoValue

\* C8: right after every entry, a key that is neither in the constructor's
\* env nor in the outer table at that entry is absent from the live table.
C8_NoForeignKeys ==
    [][EnterStep => C8_AtEntry']_vars

\* s is a prefix of t / a suffix of t
IsPrefix(s, t) == Len(s) <= Len(t) /\ SubSeq(t, 1, Len(s)) = s

IsSuffix(s, t) == Len(s) <= Len(t) /\ SubSeq(t, Len(t) - Len(s) + 1, Len(t)) = s

\* inside a session: with inherit_paths the live path starts with the paths
\* argument and ends with the outer entries; without it no outer entry is in
\* the live path (but one the paths argument names itself) and a module found
\* only through an outer entry is not importable
C9_Inside ==
    blocks # <<>> =>
        LET f == Head(blocks)
            live == pathList[sys_path]
        IN  IF inherit_paths[f.s]
            THEN IsPrefix(ctor_paths[f.s], live) /\ IsSuffix(f.paths, live)
            ELSE /\ (Range(live) \cap Range(f.paths)) \subseteq Range(ctor_paths[f.s])
                 /\ \A n \in DOMAIN Location :
                        (Location[n] \in Range(f.paths) \ Range(ctor_paths[f.s])) =>
                            WouldImport(n).exc # "none"

\* C9: inside a session the entries given in paths come before the inherited
\* outer entries (inherit_paths true), or no outer entry is on the live path
\* and an outer-only module does not import (inherit_paths false); when the
\* session exits, sys.path is the list that was live at entry.
C9_SearchPath ==
    [][/\ C9_Inside'
       /\ ExitStep =>
              /\ sys_path' = Head(blocks).path
              /\ pathList'[sys_path'] = Head(blocks).paths]_vars

\* C10: __exit__ runs whether the guarded code returned or raised; what it
\* raised reaches the caller (nothing when it returned) and the registry,
\* the environment table, the search path and the import hook are then what
\* they were at entry.
C10_ExitRestoresAndPropagates ==
    [][\A raised \in {"none", "Error"} :
          __exit__(raised) =>
              /\ last_exc' = raised
              /\ sys_modules' = Head(blocks).modules
              /\ os_environ' = Head(blocks).environ
              /\ envTab'[os_environ'] = Head(blocks).env
              /\ sys_path' = Head(blocks).path
              /\ pathList'[sys_path'] = Head(blocks).paths
              /\ import_hook' = Head(blocks).hook]_vars

\* C11: __enter__ on a session that is already active raises a usage error
\* instead of proceeding: no new with-block is opened and the session's
\* snapshots stay what the first entry captured.
C11_DoubleEntryFails ==
    [][\A s \in Sessions :
          (Active(s) /\ __enter__(s)) =>
              /\ last_exc' # "none"
              /\ blocks' = blocks
              /\ original_sys_modules'[s] = original_sys_modules[s]
              /\ original_env'[s] = original_env[s]
              /\ original_path'[s] = original_path[s]
              /\ original_import'[s] = original_import[s]]_vars

\* a module the session owns: an entry of its isolated_modules table
Owned(s, module) == isolated_modules[s][nameOf[module]] = module

\* C12: a reload called while the session is inactive, or for a module the
\* session does not own, fails as a usage error: the module's code does not
\* run (the call raises, and not the module's own exception) and the live
\* registry is unchanged.
C12_ReloadPreconditions ==
    [][\A s \in Sessions, o \in Objects, r \in BOOLEAN :
          (reload(s, o, r) /\ (~Active(s) \/ ~Owned(s, o))) =>
              /\ last_exc' \notin {"none", "Error"}
              /\ sys_modules' = sys_modules]_vars

\* C13: a reload of a module the session owns, whose code does not raise and
\* which the finders locate on the live path, returns normally: the module's
\* code has run once more, in the module object itself (no object is created
\* and the object keeps its name and its place in the session's table). This
\* covers a reload after the session has exited.
C13_ReloadReinitializes ==
    [][\A s \in Sessions, o \in Objects :
          (/\ o < nextObj
           /\ Owned(s, o)
           /\ Findable(nameOf[o], ReloadView(s, sys_modules), pathList[sys_path])
           /\ reload(s, o, FALSE)) =>
              /\ last_exc' = "none"
              /\ nextObj' = nextObj
              /\ nameOf' = nameOf
              /\ Owned(s, o)']_vars

\* the session has exited, the live registry holds the outer object under the
\* name of a module the session owns, and a reload of that module can run
C13_Witness ==
    \E s \in Sessions : \E o \in 1..(nextObj - 1) :
        /\ blocks = <<>>
        /\ Owned(s, o)
        /\ sys_modules[nameOf[o]] \notin {NoModule, o}
        /\ Findable(nameOf[o], ReloadView(s, sys_modules), pathList[sys_path])
        /\ ENABLED reload(s, o, FALSE)

\* C14: when reload finishes, having returned or raised, the live registry
\* is what it was immediately before the call.
C14_ReloadLeavesRegistry ==
    [][\A s \in Sessions, o \in Objects, r \in BOOLEAN :
          reload(s, o, r) => sys_modules' = sys_modules]_vars

\* C15: when the module's code raises during reload (or importlib.reload
\* itself raises), the exception reaches the caller and the registry is the
\* one a reload that returns leaves from the same state.
C15_ReloadErrorPropagates ==
    [][\A s \in Sessions, o \in Objects :
          /\ last_exc' # "Error" => ~reload(s, o, TRUE)
          /\ (last_exc' \in {"Error", "ImportError"} /\ \E r \in BOOLEAN : reload(s, o, r)) =>
                 sys_modules' = _restore_sys_modules(s, ReloadView(s, sys_modules))]_vars

\* a session is active, its view differs from what the restoration leaves,
\* and a reload in which the module's code raises can run
C15_Witness ==
    \E s \in Sessions : \E o \in 1..(nextObj - 1) :
        /\ Active(s)
        /\ ENABLED reload(s, o, TRUE)
        /\ ReloadView(s, sys_modules) #
               _restore_sys_modules(s, ReloadView(s, sys_modules))

\* the open with-blocks belong to different sessions
ProperlyNested ==
    \A i, j \in DOMAIN blocks : i # j => blocks[i].s # blocks[j].s

\* C16: in a properly nested sequence, the exit of a session leaves the
\* registry, the environment table, the search path and the import hook
\* exactly what they were just before its entry: the outer session's view
\* after an inner exit, the process's own after the last exit.
C16_NestingIsAStack ==
    [][(ExitStep /\ ProperlyNested) =>
          /\ sys_modules' = Head(blocks).modules
          /\ os_environ' = Head(blocks).environ
          /\ envTab'[os_environ'] = Head(blocks).env
          /\ sys_path' = Head(blocks).path
          /\ pathList'[sys_path'] = Head(blocks).paths
          /\ import_hook' = Head(blocks).hook
          /\ (blocks' = <<>> =>
                 /\ os_environ' = "environ"
                 /\ sys_path' = "path"
                 /\ import_hook' = Builtin)]_vars

\* C17: while reload runs the module's code, every entry of the live registry
\* is a protected name, a name the session keeps global, or an entry of the
\* session's isolated_modules table.
C17_ReloadViewIsIsolated ==
    [][\A s \in Sessions, o \in Objects, r \in BOOLEAN :
          (reload(s, o, r) /\ last_exc' \in {"none", "Error"}) =>
              \A n \in ModuleNames :
                  ReloadView(s, sys_modules)[n] # NoModule =>
                      \/ n \in _protected_names
                      \/ n \in keep_global[s]
                      \/ ReloadView(s, sys_modules)[n] = isolated_modules[s][n]]_vars

\* C18: a session's isolated_modules table never has a protected name or a
\* name of the session's keep_global as a key, whatever was requested.
C18_IsolatedTableKeys ==
    \A s \in Sessions : \A n \in ModuleNames :
        isolated_modules[s][n] # NoModule =>
            n \notin _protected_names /\ n \notin keep_global[s]

\* C19: right after every entry of an inactive session, the first one and
\* every re-entry, the live search path is the constructor's paths followed
\* by the outer path as it stood at that entry (inherit_paths true), or the
\* constructor's paths alone (inherit_paths false).
C19_NoAccumulation ==
    [][\A s \in Sessions :
          (~Active(s) /\ __enter__(s)) =>
              pathList'[sys_path'] =
                  IF inherit_paths[s] THEN ctor_paths[s] \o pathList[sys_path]
                  ELSE ctor_paths[s]]_vars

\* an import of `name` that returns while an inner session is active inside
\* a different, active outer session, neither of which keeps the name global
NestedImport(name) ==
    /\ Len(blocks) >= 2
    /\ blocks[1].s # blocks[2].s
    /\ name \notin _protected_names
    /\ name \notin keep_global[blocks[1].s] \cup keep_global[blocks[2].s]
    /\ Import(name)
    /\ last_exc' = "none"

\* the original C20: such an import is recorded under the requested name in
\* the tables of the inner and of the outer session.
C20_RecordedUnderRequestedName ==
    [][\A name \in ModuleNames :
          NestedImport(name) =>
              /\ isolated_modules'[blocks[1].s][name] = WouldImport(name).module
              /\ isolated_modules'[blocks[2].s][name] = WouldImport(name).module]_vars

\* C20: such an import is recorded in the tables of the inner and of the
\* outer session under the name of the module it returned (the requested
\* name, or the top-level package of a dotted request), replacing what the
\* outer session had recorded under that name.
C20_NestedImportRecordedInBoth ==
    [][\A name \in ModuleNames :
          NestedImport(name) =>
              LET r == WouldImport(name)
              IN  /\ isolated_modules'[blocks[1].s][r.names[r.module]] = r.module
                  /\ isolated_modules'[blocks[2].s][r.names[r.module]] = r.module]_vars

\* an inner session is active inside another one, the outer session had got
\* its own dummy_pkg before, and both tables now hold the module the inner
\* session's import returned
C20_Witness ==
    /\ Len(blocks) = 2
    /\ blocks[1].s # blocks[2].s
    /\ blocks[2].first["dummy_pkg"] # NoModule
    /\ blocks[1].first["dummy_pkg"] \notin {NoModule, blocks[2].first["dummy_pkg"]}
    /\ isolated_modules[blocks[1].s]["dummy_pkg"] = blocks[1].first["dummy_pkg"]
    /\ isolated_modules[blocks[2].s]["dummy_pkg"] = blocks[1].first["dummy_pkg"]

====
